---- MODULE Spec2Model ----
(***************************************************************************)
(* SteamGridOverlayApp (src/main.py): the game queue, the console          *)
(* registry, and the search -> icons -> download -> overlay -> write       *)
(* pipeline that process_games drives over the queue.                      *)
(*                                                                         *)
(* Text typed into a TextInput is a sequence of one-character strings, so  *)
(* that str.strip() is computed and not assumed.  Console names and the    *)
(* names the metadata service returns are strings.                         *)
(***************************************************************************)
EXTENDS Integers, Sequences, FiniteSets, TLC

VARIABLES
    game_queue,     \* self.game_queue: the list process_games iterates
    queue_layout,   \* self.queue_layout children in display order: each card's label text
    api_key,        \* self.api_key_input.text
    console,        \* self.console_spinner.text
    values,         \* self.console_spinner.values
    overlays,       \* the directory overlays_path_input.text names: [root, listing]
    scanned,        \* the directory the last get_available_consoles call scanned
    files,          \* PNG files under DEFAULT_OUTPUT: the paths OutputPath builds
    dirs,           \* directories under DEFAULT_OUTPUT, by console name
    pc,             \* position of the process_games handler
    idx,            \* enumerate() position in game_queue (1-based)
    results,        \* per processed item: [item, outcome]
    searchResp,     \* the search response of the item being processed
    game,           \* results[0] of the search
    grids,          \* the 'data' of the icon-listing response
    icons,          \* get_game_icons' return value
    icon,           \* icons[0], the icon whose url is downloaded
    stages,         \* stages attempted for the current item: [stage, ok]
    itemCalls,      \* requests.get calls made for the current item
    netCalls,       \* requests.get calls made since the button press
    writes,         \* result.save calls completed since the button press
    completions,    \* 'Complete' popups shown since the button press
    reported,       \* the count the 'Complete' popup shows
    popup,          \* title of the popup on screen ("" when none)
    queue0,         \* game_queue as it was at the button press
    raised,         \* the statement of the current item's try block that raised ("" when none)
    writeLog,       \* result.save calls completed since the button press: [item, pos, console, name, path]
    img,            \* the bitmap object handed to apply_overlay
    frame,          \* what overlay.png holds: a bitmap, or bytes Image.open rejects
    outs            \* apply_overlay's return values for img, in call order: [console, result]

vars == <<game_queue, queue_layout, api_key, console, values, overlays, scanned,
          files, pc, idx, results, searchResp, game, grids, icons, icon, stages,
          itemCalls, netCalls, writes, completions, reported, popup, queue0,
          dirs, raised, writeLog, img, frame, outs>>

queueVars == <<game_queue, queue_layout>>
settingVars == <<api_key, console, values, overlays, scanned>>
itemVars == <<searchResp, game, grids, icons, icon, stages, itemCalls, raised>>
runVars == <<pc, idx, results, netCalls, writes, writeLog, completions, reported, popup, queue0>>
overlayVars == <<img, frame, outs>>

-----------------------------------------------------------------------------
(* Bounds *)

\* longest queue the queue-only specification builds
MaxQueue == 4
\* longest queue the pipeline specification runs
MaxRun == 2
\* longest icon-listing response
MaxIcons == 2
\* most entries in the overlays directory
MaxEntries == 3
\* most apply_overlay calls made on one bitmap
MaxCalls == 2

-----------------------------------------------------------------------------
(* Text *)

Whitespace == {" ", "\t"}

\* str.lstrip()
RECURSIVE LStrip(_)
LStrip(s) ==
    IF s # <<>> /\ Head(s) \in Whitespace THEN LStrip(Tail(s)) ELSE s

\* str.rstrip()
RECURSIVE RStrip(_)
RStrip(s) ==
    IF s # <<>> /\ s[Len(s)] \in Whitespace
    THEN RStrip(SubSeq(s, 1, Len(s) - 1))
    ELSE s

\* str.strip()
Strip(s) == RStrip(LStrip(s))

\* what the user may type into game_name_input
GameTexts ==
    { <<>>, <<" ">>, <<" ", "\t">>, <<"a">>, <<" ", "a">>, <<"a", " ">>,
      <<"a", " ", "b">>, <<"\t", "a", " ", "b", " ">> }

\* what api_key_input may hold
KeyTexts == { <<>>, <<" ">>, <<"\t", " ">>, <<"k">> }

-----------------------------------------------------------------------------
(* Sequences *)

Range(s) == { s[i] : i \in 1..Len(s) }

\* list.remove(x): drops the first element equal to x
RECURSIVE RemoveFirst(_, _)
RemoveFirst(s, x) ==
    IF s = <<>> THEN <<>>
    ELSE IF Head(s) = x THEN Tail(s)
    ELSE <<Head(s)>> \o RemoveFirst(Tail(s), x)

\* the list without its i-th element
RemoveAt(s, i) == SubSeq(s, 1, i - 1) \o SubSeq(s, i + 1, Len(s))

-----------------------------------------------------------------------------
(* The overlays directory and the console registry *)

NoConsolesFound == "No consoles found"
SelectConsoleText == "Select Console"

\* the two spinner texts process_games refuses
Sentinels == {SelectConsoleText, NoConsolesFound}

\* directory names, listed in the order Python's sorted() gives them
DirNames == <<"GBA", "NES", "No consoles found", "SNES">>

Rank(name) == CHOOSE i \in 1..Len(DirNames) : DirNames[i] = name

\* an entry of the overlays directory: a plain file, a subdirectory without
\* overlay.png ("dir"), or a subdirectory holding overlay.png ("console")
EntryKinds == {"file", "dir", "console"}

Entries == [name : Range(DirNames), kind : EntryKinds]

\* iterdir() order is the operating system's: any order, names distinct
Listings ==
    { l \in UNION { [1..n -> Entries] : n \in 0..MaxEntries } :
        \A i, j \in 1..Len(l) : i # j => l[i].name # l[j].name }

\* root "missing": the path does not exist; "unreadable": it exists and
\* iterdir() raises PermissionError; "ok": it exists and can be listed
Layouts ==
    { [root |-> "missing", listing |-> <<>>] }
    \cup [root : {"ok", "unreadable"}, listing : Listings]

\* the directories the pipeline specification starts from
RunLayouts ==
    { [root |-> "missing", listing |-> <<>>],
      [root |-> "ok", listing |-> << [name |-> "NES", kind |-> "console"],
                                      [name |-> "GBA", kind |-> "dir"] >>] }

\* [folder.name for folder in iterdir() if folder.is_dir() and (folder / 'overlay.png').exists()]
RECURSIVE ConsoleDirs(_)
ConsoleDirs(l) ==
    IF l = <<>> THEN <<>>
    ELSE IF Head(l).kind = "console"
         THEN <<Head(l).name>> \o ConsoleDirs(Tail(l))
         ELSE ConsoleDirs(Tail(l))

\* insertion of x into a sorted list
RECURSIVE Insert(_, _)
Insert(x, s) ==
    IF s = <<>> THEN <<x>>
    ELSE IF Rank(x) <= Rank(Head(s)) THEN <<x>> \o s
    ELSE <<Head(s)>> \o Insert(x, Tail(s))

\* sorted(consoles)
RECURSIVE Sorted(_)
Sorted(s) == IF s = <<>> THEN <<>> ELSE Insert(Head(s), Sorted(Tail(s)))

\* get_available_consoles with the sorted() call left out
Unsorted(fs) ==
    IF fs.root = "ok" /\ ConsoleDirs(fs.listing) # <<>>
    THEN ConsoleDirs(fs.listing)
    ELSE <<NoConsolesFound>>

\* get_available_consoles: the try block returns the sorted names when the
\* folder exists, lists and holds a console; every other path, the except
\* included, falls through to the sentinel list
GetAvailableConsoles(fs) ==
    IF fs.root = "missing" THEN <<NoConsolesFound>>
    ELSE IF fs.root = "unreadable" THEN <<NoConsolesFound>>
    ELSE IF ConsoleDirs(fs.listing) # <<>> THEN Sorted(ConsoleDirs(fs.listing))
    ELSE <<NoConsolesFound>>

\* (overlays_folder / console / 'overlay.png').exists(): a path lookup, which
\* needs no listing of the root
OverlayExists(fs, name) ==
    /\ fs.root # "missing"
    /\ \E i \in 1..Len(fs.listing) :
          fs.listing[i].name = name /\ fs.listing[i].kind = "console"

\* config.get('selected_console'): absent, or any saved string
SavedConsoles == {"", "GBA", "NES", NoConsolesFound}

-----------------------------------------------------------------------------
(* The metadata service *)

\* an element of the search response's 'data': a record with 'id' and 'name',
\* a record lacking one of them, or a value that is no record (a string)
ItemShapes == {"record", "no_name", "no_id", "not_record"}

Halo == [shape |-> "record", id |-> 1, name |-> "Halo"]
Zelda == [shape |-> "record", id |-> 2, name |-> "Zelda"]
NoName == [shape |-> "no_name", id |-> 1, name |-> ""]
NoId == [shape |-> "no_id", id |-> 0, name |-> "Halo"]
NotRecord == [shape |-> "not_record", id |-> 0, name |-> ""]
NoGame == [shape |-> "none", id |-> 0, name |-> ""]

\* what requests.get / raise_for_status / response.json() can give search_game
\*   transport_error  the request raises
\*   http_error       raise_for_status raises
\*   not_json         response.json() raises
\*   not_object       the JSON is a list: .get raises AttributeError
\*   no_data          an object without 'data'
\*   null_data        'data' is null
\*   list             'data' is the list in items
FailureKinds == {"transport_error", "http_error", "not_json", "not_object"}

SearchResponses ==
    [kind : FailureKinds \cup {"no_data", "null_data"}, items : {<<>>}]
    \cup [kind : {"list"},
          items : { <<>>, <<Halo>>, <<Zelda, Halo>>, <<Halo, NotRecord>>,
                    <<NoName>>, <<NoId>>, <<NotRecord>>, <<NotRecord, Halo>> }]

NoResponse == [kind |-> "none", items |-> <<>>]

\* search_game's return value: [] from the bare except, .get's default [] when
\* 'data' is missing, else whatever 'data' holds (None for null)
SearchGame(resp) ==
    IF resp.kind \in FailureKinds THEN [none |-> FALSE, items |-> <<>>]
    ELSE IF resp.kind = "no_data" THEN [none |-> FALSE, items |-> <<>>]
    ELSE IF resp.kind = "null_data" THEN [none |-> TRUE, items |-> <<>>]
    ELSE [none |-> FALSE, items |-> resp.items]

\* `not results`
Falsy(r) == r.none \/ r.items = <<>>

\* game["name"] raises on a value that is no record or has no 'name'
NameRaises(g) == g.shape \in {"not_record", "no_name"}

\* game['id'] raises on a record without 'id'
IdRaises(g) == g.shape = "no_id"

-----------------------------------------------------------------------------
(* The icon catalog *)

IconSize == 1024

Urls == {"u1", "u2"}

Dims == {512, 768, IconSize}

Grid == [url : Urls, width : Dims, height : Dims]

\* the 'data' lists of an icon-listing response, up to MaxIcons entries
NoIcon == [url |-> "", width |-> 0, height |-> 0]

GridLists == UNION { [1..n -> Grid] : n \in 0..MaxIcons }

G(u, w, h) == [url |-> u, width |-> w, height |-> h]

\* the icon listings the pipeline specification draws from
RunGridLists ==
    { <<>>,
      <<G("u1", 512, 512)>>,
      <<G("u1", IconSize, IconSize)>>,
      <<G("u1", 512, 512), G("u2", IconSize, IconSize), G("u1", IconSize, 768)>>,
      <<G("u2", IconSize, IconSize), G("u1", IconSize, IconSize)>> }

\* the filter with the height test left out
WidthOnly(g) == g.width = IconSize

\* g.get('width') == 1024 and g.get('height') == 1024
Is1024(g) == g.width = IconSize /\ g.height = IconSize

\* [g for g in grids if g.get('width') == 1024 and g.get('height') == 1024]
RECURSIVE Filter1024(_)
Filter1024(gs) ==
    IF gs = <<>> THEN <<>>
    ELSE IF Is1024(Head(gs)) THEN <<Head(gs)>> \o Filter1024(Tail(gs))
    ELSE Filter1024(Tail(gs))

\* get_game_icons' return value: [] from the bare except, else the filtered list
GetGameIcons(ok, gs) == IF ok THEN Filter1024(gs) ELSE <<>>

-----------------------------------------------------------------------------
(* Compositing: the bitmaps apply_overlay works on *)

\* radius of the rounded mask's corners, in pixels
Radius == 120

\* A bitmap is square, of side `size`, and is followed in two of its pixels:
\* the top-left one and the middle one.  A pixel is one colour channel c and
\* the alpha channel a, both in 0..255.
Points == {"corner", "centre"}

\* the x and the y coordinate of a followed pixel
Coord(p, size) == IF p = "corner" THEN 0 ELSE size \div 2

Pixel == [c : {0, 200}, a : {0, 128, 255}]

Sides == {512, IconSize}

Bitmaps == [size : Sides, px : [Points -> Pixel]]

NoBitmap == [size |-> 0, px |-> [p \in Points |-> [c |-> 0, a |-> 0]]]

\* what overlay.png holds: an image, or bytes Image.open raises on
Frames ==
    [readable : {TRUE}, bitmap : Bitmaps] \cup {[readable |-> FALSE, bitmap |-> NoBitmap]}

NoFrame == [readable |-> FALSE, bitmap |-> NoBitmap]

\* distance of a coordinate from the span [Radius, size - Radius]
Outside(x, size) ==
    IF x < Radius THEN Radius - x
    ELSE IF x > size - Radius THEN x - (size - Radius)
    ELSE 0

\* Image.new('L', size, 0) with draw.rounded_rectangle([(0, 0), size],
\* radius=120, fill=255): 255 inside the rounded rectangle, 0 in the cut corners
RoundedMask(size) ==
    [p \in Points |->
        LET d == Outside(Coord(p, size), size) IN
        IF d * d + d * d <= Radius * Radius THEN 255 ELSE 0]

\* base_image.putalpha(mask): the alpha band is replaced, the colour bands kept
PutAlpha(b, mask) ==
    [b EXCEPT !.px = [p \in Points |-> [c |-> b.px[p].c, a |-> mask[p]]]]

\* overlay.resize(size, LANCZOS): the followed pixels keep their relative
\* place; resampling of their values is not followed
Resize(o, size) == [o EXCEPT !.size = size]

\* one pixel of Image.alpha_composite(dst, src): src over dst, rounded to integers
Over(d, s) ==
    IF s.a = 0 THEN d
    ELSE LET blend == d.a * (255 - s.a)
             outa255 == s.a * 255 + blend
         IN [c |-> (s.c * s.a * 255 + d.c * blend + outa255 \div 2) \div outa255,
             a |-> (outa255 + 127) \div 255]

\* Image.alpha_composite(dst, src): a new image, the arguments untouched
AlphaComposite(dst, src) ==
    [size |-> dst.size, px |-> [p \in Points |-> Over(dst.px[p], src.px[p])]]

\* apply_overlay's return value None
None == [none |-> TRUE, bitmap |-> NoBitmap]

\* the composition done in place: the base bitmap becomes the result
ApplyOverlayInPlace(base, fs, con, fr) ==
    IF ~OverlayExists(fs, con) \/ ~fr.readable
    THEN [base |-> base, result |-> None]
    ELSE LET overlay == IF fr.bitmap.size # base.size
                        THEN Resize(fr.bitmap, base.size)
                        ELSE fr.bitmap
             masked == PutAlpha(base, RoundedMask(base.size))
         IN [base |-> AlphaComposite(masked, overlay),
             result |-> [none |-> FALSE, bitmap |-> AlphaComposite(masked, overlay)]]

\* apply_overlay(base_image): the returned image and the base bitmap as the
\* call leaves it.  None, with the base untouched, when overlay.png is absent
\* for the console or cannot be opened; else the base's alpha is replaced in
\* place by the rounded mask and the overlay, brought to the base's size, is
\* composited over it into a new image
ApplyOverlay(base, fs, con, fr) ==
    IF ~OverlayExists(fs, con) \/ ~fr.readable
    THEN [base |-> base, result |-> None]
    ELSE LET overlay == IF fr.bitmap.size # base.size
                        THEN Resize(fr.bitmap, base.size)
                        ELSE fr.bitmap
             masked == PutAlpha(base, RoundedMask(base.size))
         IN [base |-> masked,
             result |-> [none |-> FALSE, bitmap |-> AlphaComposite(masked, overlay)]]

\* no bitmap is followed
NoOverlayCall ==
    /\ img = NoBitmap
    /\ frame = NoFrame
    /\ outs = <<>>

-----------------------------------------------------------------------------
(* Construction: __init__ and build() *)

IdleRun ==
    /\ pc = "idle"
    /\ idx = 0
    /\ results = <<>>
    /\ searchResp = NoResponse
    /\ game = NoGame
    /\ grids = <<>>
    /\ icons = <<>>
    /\ icon = NoIcon
    /\ stages = <<>>
    /\ itemCalls = 0
    /\ raised = ""
    /\ writeLog = <<>>
    /\ netCalls = 0
    /\ writes = 0
    /\ completions = 0
    /\ reported = 0
    /\ popup = ""
    /\ queue0 = <<>>

\* build(): the spinner's values are read before overlays_path_input exists,
\* so from DEFAULT_OVERLAYS (the directory d); its text is 'Select Console'
\* unless the config holds a selected_console; the overlays path is the
\* config's overlays_folder, or DEFAULT_OVERLAYS when the config has none
\* (fresh: no config file)
InitApp(layouts, keys, saved, fresh) ==
    /\ game_queue = <<>>
    /\ queue_layout = <<>>
    /\ api_key \in keys
    /\ scanned \in layouts
    /\ values = GetAvailableConsoles(scanned)
    /\ console \in { IF c = "" THEN SelectConsoleText ELSE c : c \in saved }
    /\ overlays \in IF fresh THEN {scanned} ELSE layouts
    /\ files = {}
    /\ dirs = {}
    /\ IdleRun

Init == InitApp(RunLayouts, KeyTexts, SavedConsoles, TRUE) /\ NoOverlayCall

-----------------------------------------------------------------------------
(* Queue handlers *)

\* add_game appending the text as typed
AddGameAsTyped(limit) ==
    /\ pc = "idle"
    /\ Len(queue_layout) < limit
    /\ \E text \in GameTexts :
          IF Strip(text) # <<>>
          THEN /\ game_queue' = Append(game_queue, text)
               /\ queue_layout' = Append(queue_layout, text)
          ELSE UNCHANGED queueVars
    /\ UNCHANGED <<overlayVars, settingVars, files, dirs, itemVars, runVars>>

\* add_game: the stripped text is appended to the list and a card with that
\* text is added to the layout; a blank text changes nothing
AddGame(limit) ==
    /\ pc = "idle"
    /\ Len(queue_layout) < limit
    /\ \E text \in GameTexts :
          LET game_name == Strip(text) IN
          IF game_name # <<>>
          THEN /\ game_queue' = Append(game_queue, game_name)
               /\ queue_layout' = Append(queue_layout, game_name)
          ELSE UNCHANGED queueVars
    /\ UNCHANGED <<overlayVars, settingVars, files, dirs, itemVars, runVars>>

\* remove_game(widget, game_name), bound to the i-th displayed card's button:
\* list.remove drops the first entry equal to the name, remove_widget the card
RemoveGame ==
    /\ pc = "idle"
    /\ \E i \in 1..Len(queue_layout) :
          LET game_name == queue_layout[i] IN
          /\ game_queue' = IF game_name \in Range(game_queue)
                           THEN RemoveFirst(game_queue, game_name)
                           ELSE game_queue
          /\ queue_layout' = RemoveAt(queue_layout, i)
    /\ UNCHANGED <<overlayVars, settingVars, files, dirs, itemVars, runVars>>

\* clear_queue
ClearQueue ==
    /\ pc = "idle"
    /\ game_queue' = <<>>
    /\ queue_layout' = <<>>
    /\ UNCHANGED <<overlayVars, settingVars, files, dirs, itemVars, runVars>>

-----------------------------------------------------------------------------
(* Settings handlers *)

\* typing into api_key_input
SetApiKey ==
    /\ pc = "idle"
    /\ \E t \in KeyTexts : api_key' = t
    /\ UNCHANGED <<overlayVars, queueVars, console, values, overlays, scanned, files, dirs,
                   itemVars, runVars>>

\* picking an entry of the spinner's dropdown
SelectConsole ==
    /\ pc = "idle"
    /\ \E v \in Range(values) : console' = v
    /\ UNCHANGED <<overlayVars, queueVars, api_key, values, overlays, scanned, files, dirs,
                   itemVars, runVars>>

\* the spinner after refresh_consoles scanned fs
Refreshed(fs) ==
    LET consoles == GetAvailableConsoles(fs) IN
    /\ values' = consoles
    /\ console' = IF consoles # <<>> /\ consoles[1] # NoConsolesFound
                  THEN consoles[1]
                  ELSE console
    /\ scanned' = fs

\* refresh_consoles
RefreshConsoles ==
    /\ pc = "idle"
    /\ Refreshed(overlays)
    /\ UNCHANGED <<overlayVars, queueVars, api_key, overlays, files, dirs, itemVars, runVars>>

\* browse_overlays_folder / select_folder: the chosen path becomes the
\* overlays path and the consoles are refreshed from it
BrowseOverlaysFolder(layouts) ==
    /\ pc = "idle"
    /\ \E fs \in layouts :
          /\ overlays' = fs
          /\ Refreshed(fs)
    /\ UNCHANGED <<overlayVars, queueVars, api_key, files, dirs, itemVars, runVars>>

-----------------------------------------------------------------------------
(* process_games *)

\* the validation with the credential compared unstripped
RejectionNoStrip(queue, key, con) ==
    IF queue = <<>> THEN "Empty Queue"
    ELSE IF key = <<>> THEN "No API Key"
    ELSE IF con \in Sentinels THEN "No Console"
    ELSE ""

\* the validation of process_games: the title of the popup it shows before
\* returning, or "" when the run goes ahead
Rejection(queue, key, con) ==
    IF queue = <<>> THEN "Empty Queue"
    ELSE IF Strip(key) = <<>> THEN "No API Key"
    ELSE IF con \in Sentinels THEN "No Console"
    ELSE ""

\* the button press: a rejected run returns at once, an accepted one logs the
\* header and enters the for loop
ProcessGames ==
    /\ pc = "idle"
    /\ LET title == Rejection(game_queue, api_key, console) IN
       IF title # ""
       THEN /\ pc' = "rejected"
            /\ popup' = title
            /\ idx' = idx
       ELSE /\ pc' = "loop"
            /\ popup' = popup
            /\ idx' = 1
    /\ queue0' = game_queue
    /\ UNCHANGED <<overlayVars, queueVars, settingVars, files, dirs, itemVars, results, netCalls,
                   writes, writeLog, completions, reported>>

\* the for statement takes the next entry and process_single_game begins
NextItem ==
    /\ pc = "loop"
    /\ idx <= Len(game_queue)
    /\ pc' = "search"
    /\ searchResp' = NoResponse
    /\ game' = NoGame
    /\ grids' = <<>>
    /\ icons' = <<>>
    /\ icon' = NoIcon
    /\ stages' = <<>>
    /\ itemCalls' = 0
    /\ raised' = ""
    /\ UNCHANGED <<overlayVars, queueVars, settingVars, files, dirs, idx, results, netCalls,
                   writes, writeLog, completions, reported, popup, queue0>>

\* the completion that also empties the queue
CompleteClearing ==
    /\ pc = "loop"
    /\ idx > Len(game_queue)
    /\ pc' = "done"
    /\ completions' = completions + 1
    /\ reported' = Len(game_queue)
    /\ popup' = "Complete"
    /\ game_queue' = <<>>
    /\ queue_layout' = <<>>
    /\ searchResp' = NoResponse
    /\ game' = NoGame
    /\ grids' = <<>>
    /\ icons' = <<>>
    /\ icon' = NoIcon
    /\ stages' = <<>>
    /\ itemCalls' = 0
    /\ raised' = ""
    /\ UNCHANGED <<overlayVars, settingVars, files, dirs, idx, results, netCalls, writes,
                   writeLog, queue0>>

\* the for statement is exhausted: the completion log line and popup
Complete ==
    /\ pc = "loop"
    /\ idx > Len(game_queue)
    /\ pc' = "done"
    /\ completions' = completions + 1
    /\ reported' = Len(game_queue)
    /\ popup' = "Complete"
    /\ searchResp' = NoResponse
    /\ game' = NoGame
    /\ grids' = <<>>
    /\ icons' = <<>>
    /\ icon' = NoIcon
    /\ stages' = <<>>
    /\ itemCalls' = 0
    /\ raised' = ""
    /\ UNCHANGED <<overlayVars, queueVars, settingVars, files, dirs, idx, results, netCalls,
                   writes, writeLog, queue0>>

\* the popup's OK button
Dismiss ==
    /\ pc \in {"done", "rejected"}
    /\ pc' = "idle"
    /\ idx' = 0
    /\ results' = <<>>
    /\ searchResp' = NoResponse
    /\ game' = NoGame
    /\ grids' = <<>>
    /\ icons' = <<>>
    /\ icon' = NoIcon
    /\ stages' = <<>>
    /\ itemCalls' = 0
    /\ raised' = ""
    /\ netCalls' = 0
    /\ writes' = 0
    /\ writeLog' = <<>>
    /\ completions' = 0
    /\ reported' = 0
    /\ popup' = ""
    /\ queue0' = <<>>
    /\ UNCHANGED <<overlayVars, queueVars, settingVars, files, dirs>>

-----------------------------------------------------------------------------
(* process_single_game *)

\* where the item's processing goes after a stage: on to the next stage, or
\* back to the for statement with the item's outcome
Continue(outcome, next) == [outcome |-> outcome, next |-> next]

\* the loop left at the first item that is not saved
StepBreakOnFailure(c) ==
    IF c.outcome = ""
    THEN /\ pc' = c.next
         /\ UNCHANGED <<idx, results>>
    ELSE /\ pc' = "loop"
         /\ idx' = IF c.outcome = "Saved" THEN idx + 1 ELSE Len(game_queue) + 1
         /\ results' = Append(results, [item |-> game_queue[idx], outcome |-> c.outcome])

\* process_single_game without its except clause: the exception leaves process_games
StepRaise(c) ==
    IF c.outcome = ""
    THEN /\ pc' = c.next
         /\ UNCHANGED <<idx, results>>
    ELSE IF c.outcome = "Error"
    THEN /\ pc' = "idle"
         /\ UNCHANGED <<idx, results>>
    ELSE /\ pc' = "loop"
         /\ idx' = idx + 1
         /\ results' = Append(results, [item |-> game_queue[idx], outcome |-> c.outcome])

\* process_single_game returns (or its except clause has logged): the item's
\* outcome is recorded and the loop moves on
Step(c) ==
    IF c.outcome = ""
    THEN /\ pc' = c.next
         /\ UNCHANGED <<idx, results>>
    ELSE /\ pc' = "loop"
         /\ idx' = idx + 1
         /\ results' = Append(results, [item |-> game_queue[idx], outcome |-> c.outcome])

\* the search result used without the `if not results: return`
AfterSearchNoReturn(r) ==
    IF Falsy(r) THEN Continue("", "icons")
    ELSE IF NameRaises(r.items[1]) \/ IdRaises(r.items[1]) THEN Continue("Error", "")
    ELSE Continue("", "icons")

\* after search_game: `if not results: return`, then game = results[0],
\* game["name"] for the log line and game['id'] for the next call
AfterSearch(r) ==
    IF Falsy(r) THEN Continue("NotFound", "")
    ELSE IF NameRaises(r.items[1]) \/ IdRaises(r.items[1]) THEN Continue("Error", "")
    ELSE Continue("", "icons")

\* results = self.search_game(game_name)
SearchStage ==
    /\ pc = "search"
    /\ \E resp \in SearchResponses :
          LET r == SearchGame(resp) IN
          /\ searchResp' = resp
          /\ stages' = Append(stages, [stage |-> "search", ok |-> ~Falsy(r)])
          /\ game' = IF Falsy(r) THEN NoGame ELSE r.items[1]
          /\ raised' = IF Falsy(r) THEN ""
                       ELSE IF NameRaises(r.items[1]) THEN "name"
                       ELSE IF IdRaises(r.items[1]) THEN "id"
                       ELSE ""
          /\ Step(AfterSearch(r))
    /\ itemCalls' = itemCalls + 1
    /\ netCalls' = netCalls + 1
    /\ UNCHANGED <<overlayVars, queueVars, settingVars, files, dirs, grids, icons, icon,
                   writes, writeLog, completions, reported, popup, queue0>>

\* after get_game_icons: `if not icons: return`
AfterIcons(ic) ==
    IF ic = <<>> THEN Continue("NoIconsAvailable", "") ELSE Continue("", "download")

\* icons = self.get_game_icons(game['id'])
IconsStage(lists) ==
    /\ pc = "icons"
    /\ \E ok \in BOOLEAN : \E gs \in lists :
          LET ic == GetGameIcons(ok, gs) IN
          /\ grids' = IF ok THEN gs ELSE <<>>
          /\ icons' = ic
          /\ icon' = IF ic # <<>> THEN ic[1] ELSE NoIcon
          /\ stages' = Append(stages, [stage |-> "icons", ok |-> ic # <<>>])
          /\ Step(AfterIcons(ic))
    /\ itemCalls' = itemCalls + 1
    /\ netCalls' = netCalls + 1
    /\ UNCHANGED <<overlayVars, queueVars, settingVars, files, dirs, searchResp, game, raised,
                   writes, writeLog, completions, reported, popup, queue0>>

\* after download_image: `if not img: return`
AfterDownload(ok) ==
    IF ok THEN Continue("", "overlay") ELSE Continue("DownloadFailed", "")

\* icon = icons[0]; img = self.download_image(icon['url'])
DownloadStage ==
    /\ pc = "download"
    /\ \E ok \in BOOLEAN :
          /\ stages' = Append(stages, [stage |-> "download", ok |-> ok])
          /\ Step(AfterDownload(ok))
    /\ itemCalls' = itemCalls + 1
    /\ netCalls' = netCalls + 1
    /\ UNCHANGED <<overlayVars, queueVars, settingVars, files, dirs, searchResp, game, grids, icons, icon,
                   raised, writes, writeLog, completions, reported, popup, queue0>>

\* after apply_overlay: `if not result: return`
AfterOverlay(ok) ==
    IF ok THEN Continue("", "write") ELSE Continue("OverlayFailed", "")

\* result = self.apply_overlay(img): None when overlay.png is absent for the
\* selected console, or when opening, resizing or compositing raises
OverlayStage ==
    /\ pc = "overlay"
    /\ \E loads \in BOOLEAN :
          LET ok == OverlayExists(overlays, console) /\ loads IN
          /\ stages' = Append(stages, [stage |-> "overlay", ok |-> ok])
          /\ Step(AfterOverlay(ok))
    /\ UNCHANGED <<overlayVars, queueVars, settingVars, files, dirs, searchResp, game, grids, icons, icon,
                   raised, itemCalls, netCalls, writes, writeLog, completions, reported, popup,
                   queue0>>

\* 'Saved!' logged whether or not mkdir and save completed
AfterWriteSavedAnyway(ok) == Continue("Saved", "")

\* after mkdir and save: 'Saved!', or the except clause when either raised
AfterWrite(ok) ==
    IF ok THEN Continue("Saved", "") ELSE Continue("Error", "")

\* a path that also carries the text typed for the item
OutputPathPerItem(con, g, game_name) == [dir |-> con, name |-> g.name, item |-> game_name]

\* output_dir = Path(DEFAULT_OUTPUT) / self.console_spinner.text;
\* output_path = output_dir / f'{game["name"]}.png': the directory and the
\* file's stem; game_name, the queue text, is in scope and not used
OutputPath(con, g, game_name) == [dir |-> con, name |-> g.name]

\* how the two file-system statements end: both complete, mkdir raises, or
\* mkdir completes and save raises
WriteOutcomes == {"saved", "mkdir_raises", "save_raises"}

\* output_dir.mkdir(parents=True, exist_ok=True); result.save(output_path, 'PNG').
\* mkdir on a directory that exists returns at once.  A save that raises may
\* leave a file behind at the path (truncated, or one that was there before)
\* or none (Pillow removes a file it created); both are drawn.
WriteStage ==
    /\ pc = "write"
    /\ \E how \in WriteOutcomes : \E leaves \in BOOLEAN :
          LET ok == how = "saved"
              output_path == OutputPath(console, game, game_queue[idx]) IN
          /\ how = "mkdir_raises" => console \notin dirs
          /\ leaves => how = "save_raises"
          /\ stages' = Append(stages, [stage |-> "write", ok |-> ok])
          /\ raised' = IF how = "mkdir_raises" THEN "mkdir"
                       ELSE IF how = "save_raises" THEN "save"
                       ELSE ""
          /\ dirs' = IF how = "mkdir_raises" THEN dirs ELSE dirs \cup {console}
          /\ files' = IF ok \/ leaves THEN files \cup {output_path} ELSE files
          /\ writes' = IF ok THEN writes + 1 ELSE writes
          /\ writeLog' = IF ok
                         THEN Append(writeLog, [item |-> game_queue[idx], pos |-> idx,
                                                console |-> console, name |-> game.name,
                                                path |-> output_path])
                         ELSE writeLog
          /\ Step(AfterWrite(ok))
    /\ UNCHANGED <<overlayVars, queueVars, settingVars, searchResp, game, grids, icons, icon,
                   itemCalls, netCalls, completions, reported, popup, queue0>>

-----------------------------------------------------------------------------
(* Specifications *)

\* a stage of the running handler: each call blocks with a timeout and returns
RunStep ==
    \/ NextItem
    \/ SearchStage
    \/ IconsStage(RunGridLists)
    \/ DownloadStage
    \/ OverlayStage
    \/ WriteStage
    \/ Complete

\* the application
Next ==
    \/ AddGame(MaxRun)
    \/ RemoveGame
    \/ ClearQueue
    \/ SetApiKey
    \/ SelectConsole
    \/ RefreshConsoles
    \/ BrowseOverlaysFolder(RunLayouts)
    \/ ProcessGames
    \/ RunStep
    \/ Dismiss

Spec == Init /\ [][Next]_vars

\* the handler runs to its end once started: nothing else runs on the UI thread
FairSpec == Spec /\ WF_vars(RunStep)

\* the queue handlers alone, on longer queues
NextQueue ==
    \/ AddGame(MaxQueue)
    \/ RemoveGame
    \/ ClearQueue

SpecQueue == Init /\ [][NextQueue]_vars

\* the console registry, started on every overlays directory of up to MaxEntries entries
InitRegistry == InitApp(Layouts, {<<"k">>}, SavedConsoles, TRUE) /\ NoOverlayCall

NextRegistry ==
    \/ RefreshConsoles
    \/ BrowseOverlaysFolder(RunLayouts)
    \/ SelectConsole

SpecRegistry == InitRegistry /\ [][NextRegistry]_vars

\* the pipeline on one queued game, over every icon listing of up to MaxIcons entries
InitIcons ==
    InitApp({ fs \in RunLayouts : fs.root = "ok" }, {<<"k">>}, {"NES"}, TRUE) /\ NoOverlayCall

NextIcons ==
    \/ AddGame(1)
    \/ ProcessGames
    \/ NextItem
    \/ SearchStage
    \/ IconsStage(GridLists)
    \/ DownloadStage
    \/ OverlayStage
    \/ WriteStage
    \/ Complete
    \/ Dismiss

SpecIcons == InitIcons /\ [][NextIcons]_vars

\* apply_overlay(img) called on the followed bitmap object
ApplyOverlayCall ==
    /\ pc = "idle"
    /\ Len(outs) < MaxCalls
    /\ LET r == ApplyOverlay(img, overlays, console, frame) IN
          /\ img' = r.base
          /\ outs' = Append(outs, [console |-> console, base |-> img, result |-> r.result])
    /\ UNCHANGED <<queueVars, settingVars, files, dirs, itemVars, runVars, frame>>

\* apply_overlay alone, called up to MaxCalls times on one bitmap object, over
\* every base bitmap and every content of overlay.png; the console is one
\* with an overlay (NES) or one without (GBA)
InitOverlay ==
    /\ InitApp({ fs \in RunLayouts : fs.root = "ok" }, {<<"k">>}, {"NES", "GBA"}, TRUE)
    /\ img \in Bitmaps
    /\ frame \in Frames
    /\ outs = <<>>

NextOverlay ==
    \/ ApplyOverlayCall
    \/ SelectConsole

SpecOverlay == InitOverlay /\ [][NextOverlay]_vars

-----------------------------------------------------------------------------
(* Properties *)

Running == {"loop", "search", "icons", "download", "overlay", "write"}

Last(s) == s[Len(s)]

\* the text holds nothing but whitespace
Blank(t) == \A i \in 1..Len(t) : t[i] \in {" ", "\t"}

\* an item's processing has ended and the for statement has not moved on
ItemEnded == pc = "loop" /\ stages # <<>>

\* C1: after any adds, removes and clears the list process_games iterates
\* holds the names of the displayed cards, in display order.
C1_QueueMatchesDisplay == game_queue = queue_layout

\* C2: a press of the button with an empty queue, a blank credential or a
\* sentinel console is rejected: no network call, no file written, no item
\* processed.
C2_RejectedBeforeAnyCall ==
    ( /\ pc # "idle"
      /\ \/ queue0 = <<>>
         \/ Blank(api_key)
         \/ console = "Select Console"
         \/ console = "No consoles found" )
    => /\ pc = "rejected"
       /\ netCalls = 0
       /\ writes = 0
       /\ results = <<>>
       /\ stages = <<>>

C2_Witness ==
    /\ pc = "rejected"
    /\ queue0 # <<>>
    /\ api_key # <<>>
    /\ Blank(api_key)
    /\ console \notin Sentinels
    /\ popup = "No API Key"

\* C3: in an accepted run the processed items are the queue's entries, one
\* each, in queue order, one at a time, and the run ends only when all have
\* been processed, whatever their outcomes.
C3_EveryItemOnceInOrder ==
    pc \in Running \cup {"done"}
    => /\ Len(results) <= Len(queue0)
       /\ \A k \in 1..Len(results) : results[k].item = queue0[k]
       /\ pc \in Running => idx = Len(results) + 1
       /\ pc \in Running \ {"loop"} => idx <= Len(queue0)
       /\ pc = "done" => Len(results) = Len(queue0)

C3_Witness ==
    /\ pc = "done"
    /\ Len(results) = 2
    /\ results[1].outcome = "Error"
    /\ results[2].outcome = "Saved"

StageOrder == <<"search", "icons", "download", "overlay", "write">>

Count(outcome) == Cardinality({ k \in 1..Len(results) : results[k].outcome = outcome })

\* C4: an item's stages are attempted in the order search, icons, download,
\* overlay, write, each only after the one before it succeeded; an empty
\* search ends the item as NotFound after that one call, and files are
\* written only by saved items.
C4_StagesInOrderStopAtFailure ==
    /\ Len(stages) <= Len(StageOrder)
    /\ \A k \in 1..Len(stages) :
          /\ stages[k].stage = StageOrder[k]
          /\ k < Len(stages) => stages[k].ok
    /\ itemCalls = IF Len(stages) < 3 THEN Len(stages) ELSE 3
    /\ pc \in Running \cup {"done"} => writes = Count("Saved")
    /\ ItemEnded =>
          /\ ~stages[1].ok <=> Last(results).outcome = "NotFound"
          /\ Last(results).outcome = "NotFound" => Len(stages) = 1 /\ itemCalls = 1
          /\ Last(results).outcome = "Saved" <=> Len(stages) = 5 /\ Last(stages).ok

C4_Witness ==
    /\ ItemEnded
    /\ Last(results).outcome = "NotFound"
    /\ searchResp.kind = "list"
    /\ itemCalls = 1
    /\ netCalls = 4
    /\ writes = 1

\* C5: a press of the button with a console that the registry does not
\* return for the overlays directory is rejected before any network call.
C5_UnknownConsoleRejected ==
    ( /\ pc # "idle"
      /\ console \notin Range(GetAvailableConsoles(overlays)) )
    => pc = "rejected" /\ netCalls = 0

\* C6: get_game_icons returns the 1024x1024 entries of the response and no
\* others, in the response's order, so the icon picked for download is
\* 1024 wide and 1024 high.
C6_Only1024Kept ==
    /\ icons = SelectSeq(grids, LAMBDA g : g.width = 1024 /\ g.height = 1024)
    /\ pc \in {"download", "overlay", "write"} =>
          /\ icons # <<>>
          /\ icon = icons[1]
          /\ icon.width = 1024
          /\ icon.height = 1024

C6_Witness ==
    /\ pc = "download"
    /\ Len(grids) = 2
    /\ grids[1].width = 1024 /\ grids[1].height = 768
    /\ icon = grids[2]

\* the names of the scanned directory's subdirectories that hold overlay.png
ValidNames(fs) ==
    { fs.listing[i].name :
        i \in { j \in 1..Len(fs.listing) : fs.listing[j].kind = "console" } }

Malformed(resp) ==
    \/ resp.kind \in {"transport_error", "http_error", "not_json", "not_object",
                      "no_data", "null_data"}
    \/ resp.kind = "list" /\ resp.items # <<>> /\ resp.items[1].shape # "record"

\* C8: an item whose search call failed or returned a malformed payload is
\* recorded as NotFound.
C8_MalformedSearchIsNotFound ==
    ItemEnded /\ Malformed(searchResp) => Last(results).outcome = "NotFound"

\* C9: an accepted run reaches Done, where one completion message has been
\* shown, after every item, reporting the queue's length; before that, and in
\* a rejected run, none has been shown.
C9_CompletesOnce ==
    /\ [](pc = "done" => /\ completions = 1
                         /\ popup = "Complete"
                         /\ reported = Len(queue0)
                         /\ Len(results) = Len(queue0))
    /\ [](pc \in Running \cup {"rejected"} => completions = 0)
    /\ [](pc \in Running => <>(pc = "done"))

C9_Witness ==
    /\ pc = "done"
    /\ completions = 1
    /\ reported = 2
    /\ Count("Saved") = 0
    /\ Count("Error") = 1

\* C10: from the button press to the end of the run, rejected or accepted,
\* game_queue holds what it held at the press.
C10_QueueUntouched == pc # "idle" => game_queue = queue0

C10_Witness ==
    /\ pc = "done"
    /\ Len(game_queue) = 2
    /\ results[1].outcome = "Saved"
    /\ results[2].outcome = "OverlayFailed"

\* the files of the console's output directory that carry the name
FilesNamed(con, name) == { f \in files : f.dir = con /\ f.name = name }

\* C11: the path a saved item writes is made of the selected console and the
\* resolved game name alone, not of the typed text or the queue position:
\* items that resolve to the same name under the same console write the same
\* path, and one file remains for that name, in one run and across runs.
C11_PathFromConsoleAndName ==
    /\ \A k \in 1..Len(writeLog) :
          /\ writeLog[k].path = [dir |-> writeLog[k].console, name |-> writeLog[k].name]
          /\ FilesNamed(writeLog[k].console, writeLog[k].name) = {writeLog[k].path}
    /\ \A j, k \in 1..Len(writeLog) :
          ( /\ writeLog[j].console = writeLog[k].console
            /\ writeLog[j].name = writeLog[k].name )
          => writeLog[j].path = writeLog[k].path
    /\ \A f, g \in files : f.dir = g.dir /\ f.name = g.name => f = g

C11_Witness ==
    /\ pc = "done"
    /\ Len(writeLog) = 2
    /\ writeLog[1].item # writeLog[2].item
    /\ writeLog[1].pos = 1 /\ writeLog[2].pos = 2
    /\ writeLog[1].name = "Halo" /\ writeLog[2].name = "Halo"
    /\ writeLog[1].path = writeLog[2].path
    /\ Cardinality(files) = 1

\* C12: apply_overlay called again on the same bitmap object under the same
\* console returns what the first call returned, although the first call
\* has replaced the object's alpha channel by the rounded mask (transparent
\* corner, opaque middle; the colours are kept).
C12_SecondCallSameOutput ==
    /\ \A i, j \in 1..Len(outs) :
          outs[i].console = outs[j].console => outs[i].result = outs[j].result
    /\ \A i \in 1..Len(outs) :
          LET after == IF i < Len(outs) THEN outs[i + 1].base ELSE img IN
          IF outs[i].result.none
          THEN after = outs[i].base
          ELSE /\ after.size = outs[i].base.size
               /\ after.px["corner"] = [c |-> outs[i].base.px["corner"].c, a |-> 0]
               /\ after.px["centre"] = [c |-> outs[i].base.px["centre"].c, a |-> 255]

C12_Witness ==
    /\ Len(outs) = 2
    /\ outs[1].console = outs[2].console
    /\ ~outs[1].result.none
    /\ outs[1].base.px["corner"].a = 255
    /\ outs[2].base.px["corner"].a = 0
    /\ outs[1].base.size # frame.bitmap.size
    /\ frame.bitmap.px["centre"] = [c |-> 200, a |-> 128]
    /\ outs[1].base.px["centre"].c = 0
    /\ outs[2].result.bitmap.px["centre"] = [c |-> 100, a |-> 255]
    /\ outs[2].result = outs[1].result

Outcomes ==
    {"Saved", "NotFound", "NoIconsAvailable", "DownloadFailed", "OverlayFailed", "Error"}

\* C13 as stated: whenever an exception was raised during the item, inside
\* search_game included, the item is recorded as Error.
C13_AnyExceptionIsError ==
    ItemEnded /\ (raised # "" \/ searchResp.kind \in FailureKinds)
    => Last(results).outcome = "Error"

\* C13, amended: every processed item has one outcome, one of the six; Saved
\* is recorded only when mkdir and save both completed; an exception raised
\* by a statement of process_single_game itself (reading the search result,
\* mkdir, save) ends the item as Error, never Saved, with the handler back in
\* its loop; an exception raised inside search_game is absorbed there and
\* the item ends as NotFound.
C13_OneOutcomeErrorIffRaised ==
    /\ pc \in Running \cup {"done"} =>
          /\ Len(results) = idx - 1
          /\ \A k \in 1..Len(results) : results[k].outcome \in Outcomes
          /\ Count("Saved") = Len(writeLog)
    /\ raised # "" => ItemEnded
    /\ ItemEnded =>
          /\ raised # "" <=> Last(results).outcome = "Error"
          /\ raised \in {"mkdir", "save"} <=> Len(stages) = 5 /\ ~Last(stages).ok
          /\ Last(results).outcome = "Saved" =>
                /\ raised = ""
                /\ console \in dirs
                /\ writeLog # <<>>
                /\ Last(writeLog).pos = idx - 1
                /\ Last(writeLog).path \in files
          /\ searchResp.kind \in FailureKinds => Last(results).outcome = "NotFound"

C13_Witness ==
    /\ ItemEnded
    /\ Len(results) = 2
    /\ results[1].outcome = "Saved"
    /\ results[2].outcome = "Error"
    /\ raised = "save"
    /\ Len(writeLog) = 1
    /\ Cardinality(files) = 2

\* the text is not empty and neither begins nor ends with whitespace
Trimmed(x) ==
    /\ x # <<>>
    /\ x[1] \notin {" ", "\t"}
    /\ x[Len(x)] \notin {" ", "\t"}

\* x is t without the whitespace at its two ends
StrippedOf(t, x) ==
    \E i \in 0..Len(t) : \E j \in i..Len(t) :
       /\ x = SubSeq(t, i + 1, j)
       /\ \A k \in 1..i : t[k] \in {" ", "\t"}
       /\ \A k \in (j + 1)..Len(t) : t[k] \in {" ", "\t"}
       /\ Trimmed(x)

\* C14: after any adds, removes and clears every entry of game_queue is a
\* non-empty text without leading or trailing whitespace; the list grows
\* only by one entry at its end, the stripped form of a typed text that is
\* not blank, whether or not the list holds it already, and the displayed
\* entries grow by the same; nothing is appended for a blank text.
C14_EntriesStripped ==
    /\ [](\A k \in 1..Len(game_queue) : Trimmed(game_queue[k]))
    /\ [][ game_queue' # game_queue /\ Len(game_queue') >= Len(game_queue)
           => \E t \in GameTexts : \E x \in { SubSeq(t, m, n) : m, n \in 1..Len(t) } :
                 /\ ~Blank(t)
                 /\ StrippedOf(t, x)
                 /\ game_queue' = Append(game_queue, x)
                 /\ queue_layout' = Append(queue_layout, x) ]_vars

C14_Witness ==
    /\ game_queue = << <<"a">>, <<"a", " ", "b">>, <<"a">> >>
    /\ queue_layout = game_queue

====
